---- MODULE Spec2Model ----
(***************************************************************************)
(* Model of pkg/cmd/image/squash.go: image layer squashing.                *)
(*                                                                         *)
(* A digest is modelled by the content it hashes (a collision-free hash),  *)
(* written as a flat sequence of string tokens.  "" (emptyDigest) is <<>>. *)
(* A descriptor is modelled by its digest.  The content store is split by  *)
(* media type (manifests, configs, layers) and each blob keeps its labels. *)
(***************************************************************************)
EXTENDS Integers, Sequences, FiniteSets, TLC

\* Largest number of layers of a source manifest.
MaxLayers == 5
\* Largest number of history entries of a config given to generateBaseImageConfig.
MaxHistory == 4

VARIABLES
    imageStore,     \* images.Store: name -> target manifest (domain = existing records)
    contentStore,   \* content.Store: [manifests, configs, layers]
    snapshotter,    \* snapshots.Snapshotter: [committed, active]
    leases,         \* lease manager: ids of the leases currently held
    pc,             \* position of each Squash invocation
    opt,            \* sr.opt of each invocation
    image,          \* *squashImage built by initImage
    sLayers,        \* result of generateSquashLayer
    remainingLayerCount,
    baseImage,      \* result of generateBaseImageConfig
    diffLayerDesc,  \* named results of applyDiffLayer
    diffID,
    snapshotID,
    retErr,         \* error applyDiffLayer / Squash is returning
    imageConfig,    \* result of generateCommitImageConfig
    commitManifestDesc,
    calls,          \* per invocation: the collaborator calls made so far, with outcome
    before,         \* the image store as it was when the invocation started
    initial,        \* the stores as they were before any invocation
    lastUpsert      \* the invocation that called Update or Create last (0: none yet)

vars == <<imageStore, contentStore, snapshotter, leases, pc, opt, image, sLayers,
          remainingLayerCount, baseImage, diffLayerDesc, diffID, snapshotID, retErr,
          imageConfig, commitManifestDesc, calls, before, initial, lastUpsert>>

storeVars == <<imageStore, contentStore, snapshotter, leases>>

\* The four stores, as one value.
Stores == [imageStore |-> imageStore, contentStore |-> contentStore,
           snapshotter |-> snapshotter, leases |-> leases]

----------------------------------------------------------------------------
\* Sequence helpers.

Last(s) == s[Len(s)]

Front(s) == SubSeq(s, 1, Len(s) - 1)

\* Go's s[lo:], with lo counted from 0.
SliceFrom(s, lo) == SubSeq(s, lo + 1, Len(s))

\* Go's s[:hi].
SliceTo(s, hi) == SubSeq(s, 1, hi)

RECURSIVE Join(_)
\* The digests of a sequence written one after the other, separated by ",".
Join(ds) ==
    IF Len(ds) = 0 THEN <<>>
    ELSE IF Len(ds) = 1 THEN ds[1]
    ELSE Join(Front(ds)) \o <<",">> \o Last(ds)

----------------------------------------------------------------------------
\* Digests.

emptyDigest == <<>>

\* The digest of the n-th distinct layer blob of a source image.
LayerDigest(n) == <<"sha256:L", ToString(n)>>

\* The value of the containerd.io/uncompressed label of a layer blob: its diffID.
Uncompressed(d) == <<"uncompressed(">> \o d \o <<")">>

RECURSIVE ChainID(_)
\* identity.ChainID: "" for no diffID, the diffID itself for one, and
\* digest(ChainID(front) + " " + last) otherwise.
ChainID(diffIDs) ==
    IF Len(diffIDs) = 0 THEN emptyDigest
    ELSE IF Len(diffIDs) = 1 THEN diffIDs[1]
    ELSE <<"chain(">> \o ChainID(Front(diffIDs)) \o <<" ">> \o Last(diffIDs) \o <<")">>

\* rootfs.CreateDiff: the digest of the diff between a scratch snapshot and its
\* parent, a function of the parent state and of what was applied on top of it.
DiffDigest(parent, applied) ==
    <<"diff(">> \o parent \o <<"|">> \o Join(applied) \o <<")">>

----------------------------------------------------------------------------
\* Values.

\* An ocispec.History entry.  CreatedBy is the position of the build step in
\* the source image (0 for the empty string), Created the clock reading.
HistoryEntry(emptyLayer, createdBy, created) ==
    [EmptyLayer |-> emptyLayer, CreatedBy |-> createdBy, Created |-> created]

\* The zero ocispec.Image, as far as the squash reads or writes it.
NoConfig == [DiffIDs |-> <<>>, History |-> <<>>, Created |-> 0]

\* The zero ocispec.Manifest.  Config is the config descriptor, modelled by
\* the config it names.
NoManifest == [Config |-> NoConfig, Layers |-> <<>>]

NoImage == [Target |-> NoManifest, Manifest |-> NoManifest, Config |-> NoConfig]

NoOpt == [SourceImageRef |-> "", TargetImageName |-> "",
          SquashLayerCount |-> 0, SquashLayerDigest |-> emptyDigest]

NonEmptyCount(history) ==
    Cardinality({i \in 1..Len(history) : ~history[i].EmptyLayer})

EmptyEntries(history) ==
    LET idx == {i \in 1..Len(history) : history[i].EmptyLayer}
        RECURSIVE pick(_)
        pick(i) == IF i > Len(history) THEN <<>>
                   ELSE IF i \in idx THEN <<history[i]>> \o pick(i + 1)
                   ELSE pick(i + 1)
    IN pick(1)

----------------------------------------------------------------------------
\* Pure functions of squash.go.

RECURSIVE scanLayers(_, _, _, _, _)
\* The loop of generateSquashLayer over image.Manifest.Layers (lines 102-109).
scanLayers(layers, target, i, find, res) ==
    IF i > Len(layers) THEN [find |-> find, res |-> res]
    ELSE LET f == find \/ layers[i] = target
         IN scanLayers(layers, target, i + 1, f,
                       IF f THEN Append(res, layers[i]) ELSE res)

\* Mutant: the count branch starts the suffix one layer too late.
generateSquashLayer_offByOne(layers, o) ==
    IF o.SquashLayerDigest # emptyDigest
    THEN LET r == scanLayers(layers, o.SquashLayerDigest, 1, FALSE, <<>>)
         IN IF ~r.find THEN [res |-> <<>>, err |-> "ErrNotFound"]
            ELSE [res |-> r.res, err |-> "nil"]
    ELSE IF o.SquashLayerCount > 1 /\ o.SquashLayerCount <= Len(layers)
    THEN [res |-> SliceFrom(layers, Len(layers) - o.SquashLayerCount + 1), err |-> "nil"]
    ELSE [res |-> <<>>, err |-> "ErrInvalidArgument"]

\* Mutant: a valid count is looked at before the digest.
generateSquashLayer_countFirst(layers, o) ==
    IF o.SquashLayerCount > 1 /\ o.SquashLayerCount <= Len(layers)
    THEN [res |-> SliceFrom(layers, Len(layers) - o.SquashLayerCount), err |-> "nil"]
    ELSE IF o.SquashLayerDigest # emptyDigest
    THEN LET r == scanLayers(layers, o.SquashLayerDigest, 1, FALSE, <<>>)
         IN IF ~r.find THEN [res |-> <<>>, err |-> "ErrNotFound"]
            ELSE [res |-> r.res, err |-> "nil"]
    ELSE [res |-> <<>>, err |-> "ErrInvalidArgument"]

\* Mutant: a count of 1 is accepted.
generateSquashLayer_geOne(layers, o) ==
    IF o.SquashLayerDigest # emptyDigest
    THEN LET r == scanLayers(layers, o.SquashLayerDigest, 1, FALSE, <<>>)
         IN IF ~r.find THEN [res |-> <<>>, err |-> "ErrNotFound"]
            ELSE [res |-> r.res, err |-> "nil"]
    ELSE IF o.SquashLayerCount >= 1 /\ o.SquashLayerCount <= Len(layers)
    THEN [res |-> SliceFrom(layers, Len(layers) - o.SquashLayerCount), err |-> "nil"]
    ELSE [res |-> <<>>, err |-> "ErrInvalidArgument"]

generateSquashLayer(layers, o) ==
    IF o.SquashLayerDigest # emptyDigest
    THEN LET r == scanLayers(layers, o.SquashLayerDigest, 1, FALSE, <<>>)
         IN IF ~r.find THEN [res |-> <<>>, err |-> "ErrNotFound"]
            ELSE [res |-> r.res, err |-> "nil"]
    ELSE IF o.SquashLayerCount > 1 /\ o.SquashLayerCount <= Len(layers)
    THEN [res |-> SliceFrom(layers, Len(layers) - o.SquashLayerCount), err |-> "nil"]
    ELSE [res |-> <<>>, err |-> "ErrInvalidArgument"]

RECURSIVE walkHistory(_, _, _, _, _)
\* The loop of generateBaseImageConfig over orginalConfig.History (lines 167-180).
walkHistory(orig, remaining, i, count, history) ==
    IF i > Len(orig) THEN history
    ELSE IF orig[i].EmptyLayer
    THEN walkHistory(orig, remaining, i + 1, count, Append(history, orig[i]))
    ELSE IF count + 1 <= remaining
    THEN walkHistory(orig, remaining, i + 1, count + 1, Append(history, orig[i]))
    ELSE history

\* Mutant: the base config keeps one diffID too many.
generateBaseImageConfig_oneMore(orginalConfig, remaining, now) ==
    [DiffIDs |-> SliceTo(orginalConfig.DiffIDs, remaining + 1),
     History |-> walkHistory(orginalConfig.History, remaining, 1, 0, <<>>),
     Created |-> now]

\* Mutant: the base config keeps the whole history.
generateBaseImageConfig_keepsHistory(orginalConfig, remaining, now) ==
    [DiffIDs |-> SliceTo(orginalConfig.DiffIDs, remaining),
     History |-> orginalConfig.History,
     Created |-> now]

\* generateBaseImageConfig once the original config is read; now is time.Now().
\* remaining > len(DiffIDs) is a slice-bounds panic, which no caller modelled
\* here reaches.
generateBaseImageConfig(orginalConfig, remaining, now) ==
    [DiffIDs |-> SliceTo(orginalConfig.DiffIDs, remaining),
     History |-> walkHistory(orginalConfig.History, remaining, 1, 0, <<>>),
     Created |-> now]

\* Mutant: the new history entry is marked as an empty layer.
generateCommitImageConfig_emptyLayer(baseConfig, newDiffID, now) ==
    [DiffIDs |-> Append(baseConfig.DiffIDs, newDiffID),
     History |-> Append(baseConfig.History, HistoryEntry(TRUE, 0, now)),
     Created |-> now]

\* generateCommitImageConfig; now is time.Now().
generateCommitImageConfig(baseConfig, newDiffID, now) ==
    [DiffIDs |-> Append(baseConfig.DiffIDs, newDiffID),
     History |-> Append(baseConfig.History, HistoryEntry(FALSE, 0, now)),
     Created |-> now]

\* Mutant: the label of the last layer is left out.
manifestLabels_skipsLast(configDesc, layers) ==
    [i \in 0..(Len(layers) - 1) |-> IF i = 0 THEN configDesc ELSE layers[i]]

\* The gc.ref.content.* labels of a manifest blob (lines 237-242): label
\* gc.ref.content.<i> is the value at i.
manifestLabels(configDesc, layers) ==
    [i \in 0..Len(layers) |-> IF i = 0 THEN configDesc ELSE layers[i]]

\* Mutant: the manifest lists the new layer only.
newManifest_dropsBase(newConfig, baseImageLayers, diffDesc) ==
    [Config |-> newConfig, Layers |-> <<diffDesc>>]

\* The manifest writeContentsForImage builds (lines 203-223).
newManifest(newConfig, baseImageLayers, diffDesc) ==
    [Config |-> newConfig, Layers |-> Append(baseImageLayers, diffDesc)]

----------------------------------------------------------------------------
\* Inputs.

\* The invocations of Squash: one alone, or two running concurrently.
Procs == {1, 2}

\* The image names: the source reference and a second name.
Names == {"src", "tgt"}

\* Layer digests only matter up to equality, so a manifest with n layers is a
\* sequence over LayerDigest(1..n) that numbers its distinct digests in order
\* of first occurrence.  Repeated digests are allowed.
IsCanonical(s) ==
    \A i \in 1..Len(s) : \A k \in 2..s[i] : \E j \in 1..(i - 1) : s[j] = k - 1

ManifestShapes(maxLen) ==
    UNION {{s \in [1..n -> 1..n] : IsCanonical(s)} : n \in 0..maxLen}

\* The manifests the pipeline is run on: all layers distinct, or one digest
\* occurring twice.
PipelineShapes(maxLen) ==
    {s \in ManifestShapes(maxLen) :
        Cardinality({pr \in (1..Len(s)) \X (1..Len(s)) :
                        pr[1] < pr[2] /\ s[pr[1]] = s[pr[2]]}) <= 1}

LayersOf(shape) == [i \in 1..Len(shape) |-> LayerDigest(shape[i])]

\* The values of --layer-digest: none, a digest of some layer, one of no layer.
SelectorDigests == {emptyDigest} \cup {LayerDigest(n) : n \in 1..(MaxLayers + 1)}

\* The values of --layer-count.
SelectorCounts == (0 - 1)..(MaxLayers + 1)

\* A history of n entries: emptyLayers is the set of positions marked empty.
HistoryOf(n, emptyLayers) ==
    [i \in 1..n |-> HistoryEntry(i \in emptyLayers, i, 0)]

\* The config of an image built layer by layer: one diffID per layer, and a
\* history of the given shape.
ConfigOf(layers, history) ==
    [DiffIDs |-> [i \in 1..Len(layers) |-> Uncompressed(layers[i])],
     History |-> history,
     Created |-> 0]

\* Histories of a source image with n layers: none recorded, one entry per
\* layer, or one entry per layer each followed by an empty-layer entry.
SourceHistories(n) ==
    {<<>>, HistoryOf(n, {}), HistoryOf(2 * n, {2 * i : i \in 1..n})}

\* Mutant: the label names the snapshot of the base layers.
configLabels_base(config) == ChainID(Front(config.DiffIDs))

\* The gc.ref.snapshot.<snapshotter> label of a config blob (lines 250-252).
configLabels(config) == ChainID(config.DiffIDs)

\* The chain IDs of the snapshots an unpacked image occupies.
ChainIDs(diffIDs) == {ChainID(SliceTo(diffIDs, n)) : n \in 1..Len(diffIDs)}

\* The stores of a host that holds, unpacked, the image (layers, config) under
\* the name "src", and under "tgt" too if aliased.
HostWith(layers, config, aliased) ==
    LET m == [Config |-> config, Layers |-> layers] IN
    /\ imageStore = [n \in (IF aliased THEN Names ELSE {"src"}) |-> m]
    /\ contentStore =
         [manifests |-> {[blob |-> m, labels |-> manifestLabels(config, layers)]},
          configs   |-> {[blob |-> config, labels |-> configLabels(config)]},
          layers    |-> {layers[i] : i \in 1..Len(layers)}]
    /\ snapshotter = [committed |-> ChainIDs(config.DiffIDs),
                      active |-> [k \in {} |-> 0]]

\* Invocation 1 is about to make the call named label, with the given locals
\* and holding a lease or not; every other invocation has not started.
At(label, o, img, suffix, leased) ==
    /\ leases = IF leased THEN {1} ELSE {}
    /\ pc = [p \in Procs |-> IF p = 1 THEN label ELSE "Squash"]
    /\ opt = [p \in Procs |-> IF p = 1 THEN o ELSE NoOpt]
    /\ image = [p \in Procs |-> IF p = 1 THEN img ELSE NoImage]
    /\ sLayers = [p \in Procs |-> IF p = 1 THEN suffix ELSE <<>>]
    /\ remainingLayerCount =
         [p \in Procs |-> IF p = 1 THEN Len(img.Manifest.Layers) - Len(suffix) ELSE 0]
    /\ baseImage = [p \in Procs |-> NoConfig]
    /\ diffLayerDesc = [p \in Procs |-> emptyDigest]
    /\ diffID = [p \in Procs |-> emptyDigest]
    /\ snapshotID = [p \in Procs |-> emptyDigest]
    /\ retErr = [p \in Procs |-> "nil"]
    /\ imageConfig = [p \in Procs |-> NoConfig]
    /\ commitManifestDesc = [p \in Procs |-> NoManifest]
    /\ calls = [p \in Procs |-> <<>>]
    /\ before = [p \in Procs |-> imageStore]
    /\ initial = Stores
    /\ lastUpsert = 0

\* No invocation has started.
Idle == At("Squash", NoOpt, NoImage, <<>>, FALSE)


\* The squashImage initImage builds from a manifest.
ImageOf(m) == [Target |-> m, Manifest |-> m, Config |-> m.Config]

----------------------------------------------------------------------------
\* The steps of Squash.  pc[p] names the call invocation p makes next; a step
\* is one call to a collaborator together with the local code around it.

\* The options of an invocation.  The source is always "src".
Options ==
    {[SourceImageRef |-> "src", TargetImageName |-> t,
      SquashLayerCount |-> c, SquashLayerDigest |-> d] :
        t \in Names, c \in SelectorCounts, d \in SelectorDigests}

\* The options the pipeline is run with: every count without a digest, and
\* every digest with a count that is invalid and with one that may be valid.
PipelineOptions ==
    {o \in Options : o.SquashLayerDigest = emptyDigest \/ o.SquashLayerCount \in {0, 2}}

Logged(p, call, arg, res) ==
    calls' = [calls EXCEPT ![p] = Append(@, [call |-> call, arg |-> arg, res |-> res])]

\* Mutant: Squash returns without running the deferred release.
Return_skipsDone(p, err) ==
    /\ retErr' = [retErr EXCEPT ![p] = err]
    /\ pc' = [pc EXCEPT ![p] = "return"]

\* Squash returns err: directly before the lease exists, through the deferred
\* done(ctx) after.
Return(p, err) ==
    /\ retErr' = [retErr EXCEPT ![p] = err]
    /\ pc' = [pc EXCEPT ![p] = IF p \in leases THEN "done" ELSE "return"]

HasManifest(m) == \E b \in contentStore.manifests : b.blob = m

HasConfig(c) == \E b \in contentStore.configs : b.blob = c

\* Squash is called (lines 319-326) and initImage reads the source image.
Squash(p, o) ==
    /\ pc[p] = "Squash"
    /\ opt' = [opt EXCEPT ![p] = o]
    /\ before' = [before EXCEPT ![p] = imageStore]
    /\ \E r \in {"nil", "ErrGet", "ErrReadManifest", "ErrReadImageConfig"} :
         /\ r = "nil" =>
              /\ o.SourceImageRef \in DOMAIN imageStore
              /\ HasManifest(imageStore[o.SourceImageRef])
              /\ HasConfig(imageStore[o.SourceImageRef].Config)
         /\ Logged(p, "Get", <<o.SourceImageRef>>, IF r = "ErrGet" THEN r ELSE "nil")
         /\ IF r = "nil"
            THEN /\ image' = [image EXCEPT ![p] = ImageOf(imageStore[o.SourceImageRef])]
                 /\ pc' = [pc EXCEPT ![p] = "generateSquashLayer"]
                 /\ UNCHANGED retErr
            ELSE /\ Return(p, r)
                 /\ UNCHANGED image
    /\ UNCHANGED <<storeVars, sLayers, remainingLayerCount, baseImage, diffLayerDesc,
                   diffID, snapshotID, imageConfig, commitManifestDesc, initial, lastUpsert>>

\* Lines 327-332.
SelectLayers(p) ==
    /\ pc[p] = "generateSquashLayer"
    /\ LET r == generateSquashLayer(image[p].Manifest.Layers, opt[p]) IN
       IF r.err # "nil"
       THEN /\ Return(p, r.err)
            /\ UNCHANGED <<sLayers, remainingLayerCount>>
       ELSE /\ sLayers' = [sLayers EXCEPT ![p] = r.res]
            /\ remainingLayerCount' = [remainingLayerCount EXCEPT ![p] =
                   Len(image[p].Manifest.Layers) - Len(r.res)]
            /\ pc' = [pc EXCEPT ![p] = "WithLease"]
            /\ UNCHANGED retErr
    /\ UNCHANGED <<storeVars, opt, image, baseImage, diffLayerDesc, diffID, snapshotID,
                   imageConfig, commitManifestDesc, calls, before, initial, lastUpsert>>

\* Mutant: Squash goes on without a lease when WithLease fails.
WithLease_ignoresError(p) ==
    /\ pc[p] = "WithLease"
    /\ \E r \in {"nil", "ErrLease"} :
         /\ Logged(p, "WithLease", emptyDigest, r)
         /\ leases' = IF r = "nil" THEN leases \cup {p} ELSE leases
         /\ pc' = [pc EXCEPT ![p] = "generateBaseImageConfig"]
         /\ UNCHANGED retErr
    /\ UNCHANGED <<imageStore, contentStore, snapshotter, opt, image, sLayers,
                   remainingLayerCount, baseImage, diffLayerDesc, diffID, snapshotID,
                   imageConfig, commitManifestDesc, before, initial, lastUpsert>>

\* Lines 333-338.  The lease id is random, here the invocation's number.
WithLease(p) ==
    /\ pc[p] = "WithLease"
    /\ \E r \in {"nil", "ErrLease"} :
         /\ Logged(p, "WithLease", emptyDigest, r)
         /\ IF r = "nil"
            THEN /\ leases' = leases \cup {p}
                 /\ pc' = [pc EXCEPT ![p] = "generateBaseImageConfig"]
                 /\ UNCHANGED retErr
            ELSE /\ Return(p, r)
                 /\ UNCHANGED leases
    /\ UNCHANGED <<imageStore, contentStore, snapshotter, opt, image, sLayers,
                   remainingLayerCount, baseImage, diffLayerDesc, diffID, snapshotID,
                   imageConfig, commitManifestDesc, before, initial, lastUpsert>>

\* Lines 340-344 and 158-193: the config is read again from the content store.
BaseImageConfig(p) ==
    /\ pc[p] = "generateBaseImageConfig"
    /\ \E r \in {"nil", "ErrReadImageConfig"} :
         /\ r = "nil" => HasConfig(image[p].Target.Config)
         /\ IF r = "nil"
            THEN /\ baseImage' = [baseImage EXCEPT ![p] =
                       generateBaseImageConfig(image[p].Target.Config,
                                               remainingLayerCount[p], p)]
                 /\ pc' = [pc EXCEPT ![p] = "Prepare"]
                 /\ UNCHANGED retErr
            ELSE /\ Return(p, r)
                 /\ UNCHANGED baseImage
    /\ UNCHANGED <<storeVars, opt, image, sLayers, remainingLayerCount, diffLayerDesc,
                   diffID, snapshotID, imageConfig, commitManifestDesc, calls, before, initial, lastUpsert>>

----------------------------------------------------------------------------
\* applyDiffLayer (lines 380-422).

\* uniquePart(): a key no other invocation generates.
uniquePart(p) == p

\* Mutant: the failure returns without the deferred cleanup.
Abort_skipsRemove(p, err) ==
    /\ retErr' = [retErr EXCEPT ![p] = err]
    /\ pc' = [pc EXCEPT ![p] = "done"]

\* retErr is set after Prepare succeeded: the deferred function (lines 392-400)
\* removes the scratch snapshot before applyDiffLayer returns.
Abort(p, err) ==
    /\ retErr' = [retErr EXCEPT ![p] = err]
    /\ pc' = [pc EXCEPT ![p] = "Remove"]

\* Mutant: the loop stops before the last layer of the suffix.
AfterApply_skipsLast(p, n) == IF n < Len(sLayers[p]) - 1 THEN "Apply" ELSE "createDiff"

\* Where applyDiffLayer goes once n layers of the suffix are applied.
AfterApply(p, n) == IF n < Len(sLayers[p]) THEN "Apply" ELSE "createDiff"

\* Lines 383-390.
Prepare(p) ==
    /\ pc[p] = "Prepare"
    /\ LET key == uniquePart(p)
           parent == ChainID(baseImage[p].DiffIDs) IN
       \E r \in {"nil", "ErrPrepare"} :
         /\ r = "nil" =>
              /\ key \notin DOMAIN snapshotter.active
              /\ parent = emptyDigest \/ parent \in snapshotter.committed
         /\ Logged(p, "Prepare", parent, r)
         /\ IF r = "nil"
            THEN /\ snapshotter' = [snapshotter EXCEPT !.active =
                       [k \in DOMAIN @ \cup {key} |->
                          IF k = key THEN [Parent |-> parent, Applied |-> <<>>]
                          ELSE @[k]]]
                 /\ pc' = [pc EXCEPT ![p] = AfterApply(p, 0)]
                 /\ UNCHANGED retErr
            ELSE /\ Return(p, r)
                 /\ UNCHANGED snapshotter
    /\ UNCHANGED <<imageStore, contentStore, leases, opt, image, sLayers,
                   remainingLayerCount, baseImage, diffLayerDesc, diffID, snapshotID,
                   imageConfig, commitManifestDesc, before, initial, lastUpsert>>

\* One iteration of applyLayersToSnapshot (lines 124-131, 402-406).
Apply(p) ==
    /\ pc[p] = "Apply"
    /\ LET key == uniquePart(p)
           n == Len(snapshotter.active[key].Applied)
           layer == sLayers[p][n + 1] IN
       \E r \in {"nil", "ErrApply"} :
         /\ r = "nil" => layer \in contentStore.layers
         /\ Logged(p, "Apply", layer, r)
         /\ IF r = "nil"
            THEN /\ snapshotter' = [snapshotter EXCEPT !.active[key].Applied =
                                        Append(@, layer)]
                 /\ pc' = [pc EXCEPT ![p] = AfterApply(p, n + 1)]
                 /\ UNCHANGED retErr
            ELSE /\ Abort(p, r)
                 /\ UNCHANGED snapshotter
    /\ UNCHANGED <<imageStore, contentStore, leases, opt, image, sLayers,
                   remainingLayerCount, baseImage, diffLayerDesc, diffID, snapshotID,
                   imageConfig, commitManifestDesc, before, initial, lastUpsert>>

\* createDiff (lines 134-156, 407-410).  rootfs.CreateDiff writes the layer
\* blob; the errors after it leave the blob in the content store.
CreateDiff(p) ==
    /\ pc[p] = "createDiff"
    /\ LET scratch == snapshotter.active[uniquePart(p)]
           newDesc == DiffDigest(scratch.Parent, scratch.Applied) IN
       \E r \in {"nil", "ErrCreateDiff", "ErrInfo", "ErrNoDiffID", "ErrParseDiffID"} :
         /\ Logged(p, "CreateDiff", newDesc, IF r = "ErrCreateDiff" THEN r ELSE "nil")
         /\ contentStore' = IF r = "ErrCreateDiff" THEN contentStore
                            ELSE [contentStore EXCEPT !.layers = @ \cup {newDesc}]
         /\ IF r = "nil"
            THEN /\ diffLayerDesc' = [diffLayerDesc EXCEPT ![p] = newDesc]
                 /\ diffID' = [diffID EXCEPT ![p] = Uncompressed(newDesc)]
                 /\ pc' = [pc EXCEPT ![p] = "Commit"]
                 /\ UNCHANGED retErr
            ELSE /\ Abort(p, r)
                 /\ UNCHANGED <<diffLayerDesc, diffID>>
    /\ UNCHANGED <<imageStore, snapshotter, leases, opt, image, sLayers,
                   remainingLayerCount, baseImage, snapshotID, imageConfig,
                   commitManifestDesc, before, initial, lastUpsert>>

\* Mutant: AlreadyExists is returned like any other error.
commitSucceeds_strict(r) == r = "nil"

\* Is the outcome of Commit reported as success (lines 415-421)?
commitSucceeds(r) == r \in {"nil", "ErrAlreadyExists"}

\* Lines 412-421.  A Commit that fails leaves the scratch snapshot active.
Commit(p) ==
    /\ pc[p] = "Commit"
    /\ LET key == uniquePart(p)
           name == ChainID(Append(baseImage[p].DiffIDs, diffID[p])) IN
       \E r \in {"nil", "ErrAlreadyExists", "ErrCommit"} :
         /\ r = "nil" => name \notin snapshotter.committed
         /\ r = "ErrAlreadyExists" => name \in snapshotter.committed
         /\ Logged(p, "Commit", name, r)
         /\ snapshotID' = [snapshotID EXCEPT ![p] = name]
         /\ snapshotter' =
              IF r = "nil"
              THEN [committed |-> snapshotter.committed \cup {name},
                    active |-> [k \in DOMAIN snapshotter.active \ {key} |->
                                  snapshotter.active[k]]]
              ELSE snapshotter
         /\ IF commitSucceeds(r)
            THEN /\ pc' = [pc EXCEPT ![p] = "writeContentsForImage"]
                 /\ UNCHANGED retErr
            ELSE Abort(p, r)
    /\ UNCHANGED <<imageStore, contentStore, leases, opt, image, sLayers,
                   remainingLayerCount, baseImage, diffLayerDesc, diffID, imageConfig,
                   commitManifestDesc, before, initial, lastUpsert>>

\* Mutant: a failure of the cleanup replaces the error being returned.
Remove_escalates(p) ==
    /\ pc[p] = "Remove"
    /\ LET key == uniquePart(p) IN
       \E r \in {"nil", "ErrRemove"} :
         /\ Logged(p, "Remove", <<ToString(key)>>, r)
         /\ snapshotter' =
              IF r = "nil"
              THEN [snapshotter EXCEPT !.active =
                       [k \in DOMAIN @ \ {key} |-> @[k]]]
              ELSE snapshotter
         /\ retErr' = IF r = "nil" THEN retErr ELSE [retErr EXCEPT ![p] = r]
         /\ pc' = [pc EXCEPT ![p] = "done"]
    /\ UNCHANGED <<imageStore, contentStore, leases, opt, image, sLayers,
                   remainingLayerCount, baseImage, diffLayerDesc, diffID, snapshotID,
                   imageConfig, commitManifestDesc, before, initial, lastUpsert>>

\* The deferred cleanup (lines 392-400): its own failure is only logged.
Remove(p) ==
    /\ pc[p] = "Remove"
    /\ LET key == uniquePart(p) IN
       \E r \in {"nil", "ErrRemove"} :
         /\ Logged(p, "Remove", <<ToString(key)>>, r)
         /\ snapshotter' =
              IF r = "nil"
              THEN [snapshotter EXCEPT !.active =
                       [k \in DOMAIN @ \ {key} |-> @[k]]]
              ELSE snapshotter
         /\ pc' = [pc EXCEPT ![p] = "done"]
    /\ UNCHANGED <<imageStore, contentStore, leases, opt, image, sLayers,
                   remainingLayerCount, baseImage, diffLayerDesc, diffID, snapshotID,
                   retErr, imageConfig, commitManifestDesc, before, initial, lastUpsert>>

----------------------------------------------------------------------------
\* writeContentsForImage (lines 196-258), createSquashImage (lines 260-274)
\* and the end of Squash.

\* content.WriteBlob: a blob already present is left as it is, labels included.
WriteBlob(blobs, blob, labels) ==
    IF \E b \in blobs : b.blob = blob THEN blobs
    ELSE blobs \cup {[blob |-> blob, labels |-> labels]}

\* The retained layers handed to writeContentsForImage (line 356).
baseImageLayers(p) == SliceTo(image[p].Manifest.Layers, remainingLayerCount[p])

\* Lines 350-356 and 198-247: the commit config, the manifest and its blob.
\* append (line 209) writes the new descriptor into the array that backs
\* image.Manifest.Layers, and sLayers when it is a slice of that array.
WriteManifest(p) ==
    /\ pc[p] = "writeContentsForImage"
    /\ LET newConfig == generateCommitImageConfig(baseImage[p], diffID[p], p)
           newMfst == newManifest(newConfig, baseImageLayers(p), diffLayerDesc[p])
           labels == manifestLabels(newMfst.Config, newMfst.Layers) IN
       /\ imageConfig' = [imageConfig EXCEPT ![p] = newConfig]
       /\ image' = [image EXCEPT
                      ![p].Manifest.Layers[remainingLayerCount[p] + 1] = diffLayerDesc[p]]
       /\ sLayers' = IF opt[p].SquashLayerDigest = emptyDigest
                     THEN [sLayers EXCEPT ![p][1] = diffLayerDesc[p]]
                     ELSE sLayers
       /\ \E r \in {"nil", "ErrWriteManifest"} :
            /\ Logged(p, "WriteBlob", <<"manifest">>, r)
            /\ IF r = "nil"
               THEN /\ contentStore' = [contentStore EXCEPT !.manifests =
                                           WriteBlob(@, newMfst, labels)]
                    /\ pc' = [pc EXCEPT ![p] = "WriteBlob"]
                    /\ UNCHANGED retErr
               ELSE /\ Return(p, r)
                    /\ UNCHANGED contentStore
    /\ UNCHANGED <<imageStore, snapshotter, leases, opt, remainingLayerCount, baseImage,
                   diffLayerDesc, diffID, snapshotID, commitManifestDesc, before, initial, lastUpsert>>

\* Mutant: the error of the config write is dropped and Squash goes on.
WriteConfig_ignoresError(p) ==
    /\ pc[p] = "WriteBlob"
    /\ \E r \in {"nil", "ErrWriteConfig"} :
         /\ Logged(p, "WriteBlob", <<"config">>, r)
         /\ contentStore' =
              IF r = "nil"
              THEN [contentStore EXCEPT !.configs =
                       WriteBlob(@, imageConfig[p], configLabels(imageConfig[p]))]
              ELSE contentStore
         /\ commitManifestDesc' = [commitManifestDesc EXCEPT ![p] =
               newManifest(imageConfig[p], baseImageLayers(p), diffLayerDesc[p])]
         /\ pc' = [pc EXCEPT ![p] = "Update"]
         /\ UNCHANGED retErr
    /\ UNCHANGED <<imageStore, snapshotter, leases, opt, image, sLayers,
                   remainingLayerCount, baseImage, diffLayerDesc, diffID, snapshotID,
                   imageConfig, before, initial, lastUpsert>>

\* Lines 249-257 and 357-365: the config blob; the manifest descriptor is
\* returned to Squash only now.
WriteConfig(p) ==
    /\ pc[p] = "WriteBlob"
    /\ \E r \in {"nil", "ErrWriteConfig"} :
         /\ Logged(p, "WriteBlob", <<"config">>, r)
         /\ IF r = "nil"
            THEN /\ contentStore' = [contentStore EXCEPT !.configs =
                       WriteBlob(@, imageConfig[p], configLabels(imageConfig[p]))]
                 /\ commitManifestDesc' = [commitManifestDesc EXCEPT ![p] =
                       newManifest(imageConfig[p], baseImageLayers(p), diffLayerDesc[p])]
                 /\ pc' = [pc EXCEPT ![p] = "Update"]
                 /\ UNCHANGED retErr
            ELSE /\ Return(p, r)
                 /\ UNCHANGED <<contentStore, commitManifestDesc>>
    /\ UNCHANGED <<imageStore, snapshotter, leases, opt, image, sLayers,
                   remainingLayerCount, baseImage, diffLayerDesc, diffID, snapshotID,
                   imageConfig, before, initial, lastUpsert>>

\* Mutant: Create is tried after every failure of Update.
Update_createsOnAnyError(p) ==
    /\ pc[p] = "Update"
    /\ LET name == opt[p].TargetImageName IN
       \E r \in {"nil", "ErrNotFound", "ErrUpdate"} :
         /\ r = "nil" => name \in DOMAIN imageStore
         /\ r = "ErrNotFound" => name \notin DOMAIN imageStore
         /\ Logged(p, "Update", <<name>>, r)
         /\ imageStore' = IF r = "nil"
                          THEN [imageStore EXCEPT ![name] = commitManifestDesc[p]]
                          ELSE imageStore
         /\ pc' = [pc EXCEPT ![p] = IF r = "nil" THEN "Unpack" ELSE "Create"]
         /\ UNCHANGED retErr
    /\ lastUpsert' = p
    /\ UNCHANGED <<contentStore, snapshotter, leases, opt, image, sLayers,
                   remainingLayerCount, baseImage, diffLayerDesc, diffID, snapshotID,
                   imageConfig, commitManifestDesc, before, initial>>

\* Mutant: the record updated is the one of the source reference.
Update_namesSource(p) ==
    /\ pc[p] = "Update"
    /\ LET name == opt[p].SourceImageRef IN
       \E r \in {"nil", "ErrNotFound", "ErrUpdate"} :
         /\ r = "nil" => name \in DOMAIN imageStore
         /\ r = "ErrNotFound" => name \notin DOMAIN imageStore
         /\ Logged(p, "Update", <<name>>, r)
         /\ imageStore' = IF r = "nil"
                          THEN [imageStore EXCEPT ![name] = commitManifestDesc[p]]
                          ELSE imageStore
         /\ IF r = "nil"
            THEN pc' = [pc EXCEPT ![p] = "Unpack"] /\ UNCHANGED retErr
            ELSE IF r = "ErrNotFound"
            THEN pc' = [pc EXCEPT ![p] = "Create"] /\ UNCHANGED retErr
            ELSE Return(p, r)
    /\ lastUpsert' = p
    /\ UNCHANGED <<contentStore, snapshotter, leases, opt, image, sLayers,
                   remainingLayerCount, baseImage, diffLayerDesc, diffID, snapshotID,
                   imageConfig, commitManifestDesc, before, initial>>

\* createSquashImage, line 261: Update fails with NotFound exactly when the
\* store has no record of that name.
Update(p) ==
    /\ pc[p] = "Update"
    /\ LET name == opt[p].TargetImageName IN
       \E r \in {"nil", "ErrNotFound", "ErrUpdate"} :
         /\ r = "nil" => name \in DOMAIN imageStore
         /\ r = "ErrNotFound" => name \notin DOMAIN imageStore
         /\ Logged(p, "Update", <<name>>, r)
         /\ imageStore' = IF r = "nil"
                          THEN [imageStore EXCEPT ![name] = commitManifestDesc[p]]
                          ELSE imageStore
         /\ IF r = "nil"
            THEN pc' = [pc EXCEPT ![p] = "Unpack"] /\ UNCHANGED retErr
            ELSE IF r = "ErrNotFound"
            THEN pc' = [pc EXCEPT ![p] = "Create"] /\ UNCHANGED retErr
            ELSE Return(p, r)
    /\ lastUpsert' = p
    /\ UNCHANGED <<contentStore, snapshotter, leases, opt, image, sLayers,
                   remainingLayerCount, baseImage, diffLayerDesc, diffID, snapshotID,
                   imageConfig, commitManifestDesc, before, initial>>

\* createSquashImage, line 268: Create fails with AlreadyExists when a record
\* of that name has appeared since.
Create(p) ==
    /\ pc[p] = "Create"
    /\ LET name == opt[p].TargetImageName IN
       \E r \in {"nil", "ErrAlreadyExists", "ErrCreate"} :
         /\ r = "nil" => name \notin DOMAIN imageStore
         /\ r = "ErrAlreadyExists" => name \in DOMAIN imageStore
         /\ Logged(p, "Create", <<name>>, r)
         /\ imageStore' = IF r = "nil"
                          THEN [n \in DOMAIN imageStore \cup {name} |->
                                  IF n = name THEN commitManifestDesc[p]
                                  ELSE imageStore[n]]
                          ELSE imageStore
         /\ IF r = "nil"
            THEN pc' = [pc EXCEPT ![p] = "Unpack"] /\ UNCHANGED retErr
            ELSE Return(p, r)
    /\ lastUpsert' = p
    /\ UNCHANGED <<contentStore, snapshotter, leases, opt, image, sLayers,
                   remainingLayerCount, baseImage, diffLayerDesc, diffID, snapshotID,
                   imageConfig, commitManifestDesc, before, initial>>

\* Lines 371-376: Unpack commits a snapshot for every layer chain of the image.
Unpack(p) ==
    /\ pc[p] = "Unpack"
    /\ \E r \in {"nil", "ErrUnpack"} :
         /\ r = "nil" =>
              /\ HasManifest(commitManifestDesc[p])
              /\ HasConfig(commitManifestDesc[p].Config)
         /\ Logged(p, "Unpack", emptyDigest, r)
         /\ snapshotter' =
              IF r = "nil"
              THEN [snapshotter EXCEPT !.committed =
                        @ \cup ChainIDs(commitManifestDesc[p].Config.DiffIDs)]
              ELSE snapshotter
         /\ Return(p, r)
    /\ UNCHANGED <<imageStore, contentStore, leases, opt, image, sLayers,
                   remainingLayerCount, baseImage, diffLayerDesc, diffID, snapshotID,
                   imageConfig, commitManifestDesc, before, initial, lastUpsert>>

\* The deferred done(ctx) (line 338): the lease is released, nothing is deleted.
Done(p) ==
    /\ pc[p] = "done"
    /\ Logged(p, "done", emptyDigest, "nil")
    /\ leases' = leases \ {p}
    /\ pc' = [pc EXCEPT ![p] = "return"]
    /\ UNCHANGED <<imageStore, contentStore, snapshotter, opt, image, sLayers,
                   remainingLayerCount, baseImage, diffLayerDesc, diffID, snapshotID,
                   retErr, imageConfig, commitManifestDesc, before, initial, lastUpsert>>

----------------------------------------------------------------------------
\* Specifications.

Step(p, options) ==
    \/ \E o \in options : Squash(p, o)
    \/ SelectLayers(p)
    \/ WithLease(p)
    \/ BaseImageConfig(p)
    \/ Prepare(p)
    \/ Apply(p)
    \/ CreateDiff(p)
    \/ Commit(p)
    \/ Remove(p)
    \/ WriteManifest(p)
    \/ WriteConfig(p)
    \/ Update(p)
    \/ Create(p)
    \/ Unpack(p)
    \/ Done(p)

\* One invocation of Squash on a host holding any source image.
Init ==
    /\ \E shape \in PipelineShapes(MaxLayers) :
       \E history \in SourceHistories(Len(shape)) :
       \E aliased \in BOOLEAN :
         HostWith(LayersOf(shape), ConfigOf(LayersOf(shape), history), aliased)
    /\ Idle

Next == Step(1, PipelineOptions)

Spec == Init /\ [][Next]_vars

\* The options of the concurrent invocations: a valid count, either target.
ConcurrentOptions ==
    {o \in Options : o.SquashLayerDigest = emptyDigest /\ o.SquashLayerCount \in {2, 3}}

\* Two invocations of Squash, running concurrently on a host holding a
\* three-layer source image.
InitConcurrent ==
    /\ \E aliased \in BOOLEAN :
         HostWith(LayersOf(<<1, 2, 3>>),
                  ConfigOf(LayersOf(<<1, 2, 3>>), HistoryOf(3, {})), aliased)
    /\ Idle

NextConcurrent == \E p \in Procs : Step(p, ConcurrentOptions)

SpecConcurrent == InitConcurrent /\ [][NextConcurrent]_vars

\* generateSquashLayer alone, on every manifest and every selector.
InitSelect ==
    \E shape \in ManifestShapes(MaxLayers) :
    \E o \in {x \in Options : x.TargetImageName = "tgt"} :
       LET layers == LayersOf(shape)
           config == ConfigOf(layers, HistoryOf(Len(shape), {})) IN
       /\ HostWith(layers, config, FALSE)
       /\ At("generateSquashLayer", o,
             ImageOf([Config |-> config, Layers |-> layers]), <<>>, FALSE)

NextSelect == SelectLayers(1)

SpecSelect == InitSelect /\ [][NextSelect]_vars

\* The histories given to generateBaseImageConfig: any marking of at most
\* MaxHistory entries.
Histories ==
    UNION {{HistoryOf(n, e) : e \in SUBSET (1..n)} : n \in 0..MaxHistory}

\* generateBaseImageConfig alone, on every config and every remaining count.
InitBase ==
    \E n \in 0..MaxLayers :
    \E history \in Histories :
    \E remaining \in 0..n :
       LET layers == LayersOf([i \in 1..n |-> i])
           config == ConfigOf(layers, history) IN
       /\ HostWith(layers, config, FALSE)
       /\ At("generateBaseImageConfig",
             [NoOpt EXCEPT !.SourceImageRef = "src", !.TargetImageName = "tgt"],
             ImageOf([Config |-> config, Layers |-> layers]),
             SliceFrom(layers, remaining), TRUE)

NextBase == BaseImageConfig(1)

SpecBase == InitBase /\ [][NextBase]_vars

----------------------------------------------------------------------------
\* Properties.

\* The layers of the source manifest as initImage read them.
SourceLayers(p) == image[p].Target.Layers

\* initImage failed: Squash returned after its first call.
InitFailed(p) ==
    /\ pc[p] = "return"
    /\ Len(calls[p]) = 1
    /\ retErr[p] \in {"ErrGet", "ErrReadManifest", "ErrReadImageConfig"}

\* generateSquashLayer has run on the source image.
Selected(p) == pc[p] \notin {"Squash", "generateSquashLayer"} /\ ~InitFailed(p)

\* generateSquashLayer has just returned: Squash is about to take the lease,
\* or has returned the selection's error.
JustSelected(p) ==
    \/ pc[p] = "WithLease"
    \/ pc[p] = "return" /\ ~InitFailed(p) /\ \A i \in 1..Len(calls[p]) : calls[p][i].call = "Get"

CountMode(p) == opt[p].SquashLayerDigest = emptyDigest

ValidCount(p) ==
    1 < opt[p].SquashLayerCount /\ opt[p].SquashLayerCount <= Len(SourceLayers(p))

\* The calls of invocation p with the given name, as positions of its log.
CallsOf(p, call) == {i \in 1..Len(calls[p]) : calls[p][i].call = call}

\* C1: with an empty digest selector and a count c, 1 < c <= L, selection
\* succeeds and the suffix is the last c layers of the manifest, in order.
C1_CountSelection ==
    \A p \in Procs :
      (JustSelected(p) /\ CountMode(p) /\ ValidCount(p)) =>
        LET c == opt[p].SquashLayerCount
            L == Len(SourceLayers(p)) IN
        /\ pc[p] = "WithLease"
        /\ retErr[p] = "nil"
        /\ Len(sLayers[p]) = c
        /\ \A i \in 1..c : sLayers[p][i] = SourceLayers(p)[L - c + i]
        /\ remainingLayerCount[p] = L - c

\* A count strictly between 1 and L selected a proper suffix.
C1_Witness ==
    /\ pc[1] = "WithLease"
    /\ CountMode(1)
    /\ opt[1].SquashLayerCount = 3
    /\ Len(SourceLayers(1)) = 5
    /\ Len(sLayers[1]) = 3

\* The positions of the manifest whose digest equals the selector.
Matches(p) ==
    {i \in 1..Len(SourceLayers(p)) : SourceLayers(p)[i] = opt[p].SquashLayerDigest}

\* C2: a non-empty digest selector decides alone: the suffix starts at the
\* first layer with that digest and runs to the last layer; without such a
\* layer selection fails with NotFound, whatever the count.
C2_DigestSelection ==
    \A p \in Procs :
      (JustSelected(p) /\ ~CountMode(p)) =>
        IF Matches(p) = {}
        THEN pc[p] = "return" /\ retErr[p] = "ErrNotFound"
        ELSE LET first == CHOOSE i \in Matches(p) : \A j \in Matches(p) : i <= j
                 L == Len(SourceLayers(p)) IN
             /\ pc[p] = "WithLease"
             /\ retErr[p] = "nil"
             /\ Len(sLayers[p]) = L - first + 1
             /\ \A i \in 1..Len(sLayers[p]) : sLayers[p][i] = SourceLayers(p)[first + i - 1]

\* A digest that two layers carry was selected together with a valid count
\* that would have selected another suffix.
C2_Witness ==
    /\ pc[1] = "WithLease"
    /\ ~CountMode(1)
    /\ ValidCount(1)
    /\ Cardinality(Matches(1)) = 2
    /\ 1 \notin Matches(1)
    /\ Len(sLayers[1]) # opt[1].SquashLayerCount

\* No invocation has changed any of the stores.
NothingWritten == Stores = initial

\* C3: with an empty digest selector, a count c <= 1 or c > L makes Squash
\* fail with InvalidArgument before it takes a lease, prepares a snapshot,
\* writes a blob or touches an image record.
C3_InvalidSelector ==
    \A p \in Procs :
      (Selected(p) /\ CountMode(p) /\ ~ValidCount(p)) =>
        /\ pc[p] = "return"
        /\ retErr[p] = "ErrInvalidArgument"
        /\ Len(calls[p]) = 1 /\ calls[p][1].call = "Get"
        /\ p \notin leases
        /\ uniquePart(p) \notin DOMAIN snapshotter.active
        /\ NothingWritten

\* Count 1 on a single-layer image was refused.
C3_Witness ==
    /\ pc[1] = "return"
    /\ retErr[1] = "ErrInvalidArgument"
    /\ CountMode(1)
    /\ opt[1].SquashLayerCount = 1
    /\ Len(SourceLayers(1)) = 1

\* Squash has returned without any error.
Succeeded(p) == pc[p] = "return" /\ retErr[p] = "nil"

\* The history of the source config as initImage read it.
SourceHistory(p) == image[p].Target.Config.History

\* The image record of the target name points at manifest m.
TargetNames(p, m) ==
    /\ opt[p].TargetImageName \in DOMAIN imageStore
    /\ imageStore[opt[p].TargetImageName] = m

\* C4 (as stated): on a 3-layer source, layer-count=1 succeeds and the output
\* has 3 layers, 3 diffIDs and 3 non-empty-layer history entries.
C4_Original ==
    \A p \in Procs :
      (/\ pc[p] = "return" /\ ~InitFailed(p)
       /\ CountMode(p) /\ opt[p].SquashLayerCount = 1
       /\ Len(SourceLayers(p)) = 3) =>
        /\ retErr[p] = "nil"
        /\ Len(commitManifestDesc[p].Layers) = 3
        /\ Len(commitManifestDesc[p].Config.DiffIDs) = 3
        /\ NonEmptyCount(commitManifestDesc[p].Config.History) = 3

\* C4 (amended): on a 3-layer source, layer-count=1 fails with
\* InvalidArgument; layer-count=2, when Squash succeeds, gives the target an
\* image of 2 layers (1 retained + 1 squashed) whose config has 2 diffIDs,
\* and 2 non-empty-layer history entries if the source history has 3.
C4_ScenarioA ==
    \A p \in Procs :
      (pc[p] = "return" /\ ~InitFailed(p) /\ CountMode(p) /\ Len(SourceLayers(p)) = 3) =>
        /\ opt[p].SquashLayerCount = 1 => retErr[p] = "ErrInvalidArgument"
        /\ (opt[p].SquashLayerCount = 2 /\ retErr[p] = "nil") =>
             LET m == commitManifestDesc[p] IN
             /\ TargetNames(p, m)
             /\ HasManifest(m) /\ HasConfig(m.Config)
             /\ Len(m.Layers) = 2
             /\ m.Layers[1] = SourceLayers(p)[1]
             /\ Len(m.Config.DiffIDs) = 2
             /\ NonEmptyCount(SourceHistory(p)) = 3 =>
                  NonEmptyCount(m.Config.History) = 2

\* A 3-layer image with 3 layer entries in its history was squashed with
\* layer-count=2.
C4_Witness ==
    /\ Succeeded(1)
    /\ CountMode(1)
    /\ opt[1].SquashLayerCount = 2
    /\ Len(SourceLayers(1)) = 3
    /\ NonEmptyCount(SourceHistory(1)) = 3
    /\ Len(imageStore[opt[1].TargetImageName].Layers) = 2

\* The manifest of a successful Squash: the first L - s source layers, then
\* the new diff descriptor; the target record names it and its blob exists.
ManifestShape(p) ==
    LET m == commitManifestDesc[p]
        remaining == Len(SourceLayers(p)) - Len(sLayers[p]) IN
    /\ TargetNames(p, m)
    /\ HasManifest(m)
    /\ Len(m.Layers) = remaining + 1
    /\ \A i \in 1..remaining : m.Layers[i] = SourceLayers(p)[i]
    /\ m.Layers[remaining + 1] = diffLayerDesc[p]
    /\ diffLayerDesc[p] # emptyDigest
    /\ \A i \in 1..Len(SourceLayers(p)) : SourceLayers(p)[i] # diffLayerDesc[p]

\* The digest selector is the digest of the 3rd layer of a 5-layer source.
ThirdOfFive(p) ==
    /\ Len(SourceLayers(p)) = 5
    /\ opt[p].SquashLayerDigest = SourceLayers(p)[3]

\* C5 (as stated): the written manifest has the first L - s source layers
\* followed by the new diff descriptor, and a 5-layer source with the digest
\* of its 3rd layer as selector always gives 2 retained + 1 squashed layers.
C5_Original ==
    \A p \in Procs :
      Succeeded(p) =>
        /\ ManifestShape(p)
        /\ ThirdOfFive(p) =>
             /\ Len(commitManifestDesc[p].Layers) = 3
             /\ Len(sLayers[p]) = 3

\* C5 (amended): the same, the 5-layer case holding when neither of the
\* first two layers has the digest of the 3rd.
C5_ManifestShape ==
    \A p \in Procs :
      Succeeded(p) =>
        /\ ManifestShape(p)
        /\ (ThirdOfFive(p) /\ Matches(p) \cap {1, 2} = {}) =>
             /\ Len(commitManifestDesc[p].Layers) = 3
             /\ Len(sLayers[p]) = 3
             /\ \A i \in 1..2 : commitManifestDesc[p].Layers[i] = SourceLayers(p)[i]

\* A 5-layer image was squashed from its 3rd layer on.
C5_Witness ==
    /\ Succeeded(1)
    /\ ThirdOfFive(1)
    /\ Matches(1) \cap {1, 2} = {}
    /\ Len(imageStore[opt[1].TargetImageName].Layers) = 3

\* generateBaseImageConfig has returned a config to invocation p.
BaseDerived(p) == pc[p] = "Prepare" \/ CallsOf(p, "Prepare") # {}

\* The config generateBaseImageConfig read.
OriginalConfig(p) == image[p].Target.Config

\* s is t cut after some entry.
IsPrefix(s, t) == Len(s) <= Len(t) /\ SubSeq(t, 1, Len(s)) = s

\* C6 (as stated): the base config has the first remaining diffIDs, at most
\* remaining non-empty-layer history entries, and every empty-layer entry of
\* the original history, in order.
C6_Original ==
    \A p \in Procs :
      BaseDerived(p) =>
        /\ baseImage[p].DiffIDs = SliceTo(OriginalConfig(p).DiffIDs, remainingLayerCount[p])
        /\ NonEmptyCount(baseImage[p].History) <= remainingLayerCount[p]
        /\ EmptyEntries(baseImage[p].History) = EmptyEntries(OriginalConfig(p).History)

\* C6 (amended): the base config has the first remaining diffIDs, and its
\* history is the original history cut just before its (remaining+1)-th
\* non-empty-layer entry (whole if there is none): at most remaining
\* non-empty-layer entries, and the empty-layer entries before the cut, in
\* order; those after the cut are dropped.
C6_BaseConfig ==
    \A p \in Procs :
      BaseDerived(p) =>
        LET orig == OriginalConfig(p).History
            base == baseImage[p].History
            remaining == remainingLayerCount[p] IN
        /\ Len(baseImage[p].DiffIDs) = remaining
        /\ \A i \in 1..remaining : baseImage[p].DiffIDs[i] = OriginalConfig(p).DiffIDs[i]
        /\ IsPrefix(base, orig)
        /\ NonEmptyCount(base) <= remaining
        /\ Len(base) < Len(orig) =>
             /\ ~orig[Len(base) + 1].EmptyLayer
             /\ NonEmptyCount(base) = remaining
        /\ EmptyEntries(base) = EmptyEntries(SubSeq(orig, 1, Len(base)))

\* A history was cut before a non-empty-layer entry that an empty-layer
\* entry follows, keeping an empty-layer entry before the cut.
C6_Witness ==
    /\ pc[1] = "Prepare"
    /\ remainingLayerCount[1] = 1
    /\ Len(OriginalConfig(1).History) = 4
    /\ Len(baseImage[1].History) = 2
    /\ baseImage[1].History[2].EmptyLayer
    /\ OriginalConfig(1).History[4].EmptyLayer

\* The Apply calls of invocation p that failed.
FailedApply(p) == {i \in CallsOf(p, "Apply") : calls[p][i].res # "nil"}

\* What holds once an Apply of invocation p has failed, cleanup aside: it was
\* the last Apply, the layers before it were applied in order, only the
\* cleanup and the lease release follow, Squash returns the Apply error, and
\* no blob or image record is written.
ApplyFailureAborts(p) ==
    LET f == CHOOSE i \in FailedApply(p) : TRUE IN
    /\ FailedApply(p) = {f}
    /\ \A i \in CallsOf(p, "Apply") :
         /\ i <= f
         /\ calls[p][i].arg = SourceLayers(p)[
                remainingLayerCount[p] + Cardinality({j \in CallsOf(p, "Apply") : j <= i})]
    /\ \A i \in (f + 1)..Len(calls[p]) : calls[p][i].call \in {"Remove", "done"}
    /\ pc[p] \in {"Remove", "done", "return"}
    /\ retErr[p] = "ErrApply"
    /\ contentStore = initial.contentStore
    /\ imageStore = initial.imageStore

\* C7 (as stated): after an Apply failure no later layer is applied, the
\* scratch snapshot is removed, Squash returns the Apply error, and no
\* manifest blob, config blob or image record is written.
C7_Original ==
    \A p \in Procs :
      FailedApply(p) # {} =>
        /\ ApplyFailureAborts(p)
        /\ pc[p] \in {"done", "return"} =>
             uniquePart(p) \notin DOMAIN snapshotter.active

\* C7 (amended): the same, except that the removal of the scratch snapshot is
\* attempted once, right after the failed Apply: the snapshot is gone if
\* Remove succeeds and stays if Remove fails, which Squash does not report.
C7_ApplyFailure ==
    \A p \in Procs :
      FailedApply(p) # {} =>
        /\ ApplyFailureAborts(p)
        /\ pc[p] = "Remove" => CallsOf(p, "Remove") = {}
        /\ pc[p] \in {"done", "return"} =>
             LET f == CHOOSE i \in FailedApply(p) : TRUE IN
             /\ CallsOf(p, "Remove") = {f + 1}
             /\ calls[p][f + 1].res = "nil" <=>
                  uniquePart(p) \notin DOMAIN snapshotter.active

\* Apply failed on the second of three layers and Squash has returned.
C7_Witness ==
    /\ pc[1] = "return"
    /\ Len(sLayers[1]) = 3
    /\ Cardinality(CallsOf(1, "Apply")) = 2
    /\ FailedApply(1) # {}
    /\ retErr[1] = "ErrApply"

\* C8: whenever Squash returns an error, the image record of the target name
\* is what it was before the invocation.
C8_NoPartialSuccess ==
    \A p \in Procs :
      (pc[p] = "return" /\ retErr[p] # "nil") =>
        LET t == opt[p].TargetImageName
            old == before[p] IN
        /\ t \in DOMAIN imageStore <=> t \in DOMAIN old
        /\ t \in DOMAIN imageStore => imageStore[t] = old[t]

\* The successful WriteBlob calls of invocation p for the given kind of blob.
Written(p, kind) ==
    {i \in CallsOf(p, "WriteBlob") : calls[p][i].arg = <<kind>> /\ calls[p][i].res = "nil"}

\* C9: the manifest blob is written before the config blob, Update and Create
\* are attempted only after both writes succeeded, and whenever the target
\* record names the new manifest both blobs are in the content store.
C9_WriteOrdering ==
    \A p \in Procs :
      /\ \A k \in CallsOf(p, "WriteBlob") :
           calls[p][k].arg = <<"config">> => \E j \in Written(p, "manifest") : j < k
      /\ \A i \in CallsOf(p, "Update") \cup CallsOf(p, "Create") :
           \E j \in Written(p, "manifest") : \E k \in Written(p, "config") : j < k /\ k < i
      /\ (CallsOf(p, "Update") # {} /\ TargetNames(p, commitManifestDesc[p])) =>
           /\ HasManifest(commitManifestDesc[p])
           /\ HasConfig(commitManifestDesc[p].Config)

\* The target record, created by this invocation, names the new manifest.
C9_Witness ==
    /\ pc[1] = "Unpack"
    /\ CallsOf(1, "Create") # {}
    /\ TargetNames(1, commitManifestDesc[1])
    /\ opt[1].TargetImageName \notin DOMAIN before[1]

\* The outcome of the Commit call of invocation p ("none" before the call).
Committed(p) ==
    IF CallsOf(p, "Commit") = {} THEN "none"
    ELSE calls[p][CHOOSE i \in CallsOf(p, "Commit") : TRUE].res

\* The layers invocation p applied to its scratch snapshot, in order.
AppliedBy(p) ==
    LET RECURSIVE from(_)
        from(i) == IF i > Len(calls[p]) THEN <<>>
                   ELSE IF calls[p][i].call = "Apply" /\ calls[p][i].res = "nil"
                   THEN <<calls[p][i].arg>> \o from(i + 1)
                   ELSE from(i + 1)
    IN from(1)

\* C10: a Commit that fails with AlreadyExists is reported as success with
\* the computed descriptor and diffID, any other Commit error is returned;
\* two runs of applyDiffLayer on the same base diffIDs and the same suffix,
\* one after the other or interleaved, end with the same diffID and chain ID.
C10_CommitConvergence ==
    /\ \A p \in Procs :
         /\ Cardinality(CallsOf(p, "Commit")) <= 1
         /\ Committed(p) \in {"nil", "ErrAlreadyExists"} =>
              /\ pc[p] # "Remove" /\ CallsOf(p, "Remove") = {}
              /\ pc[p] = "writeContentsForImage" => retErr[p] = "nil"
              /\ retErr[p] # "ErrCommit"
              /\ diffLayerDesc[p] # emptyDigest
              /\ diffID[p] = Uncompressed(diffLayerDesc[p])
              /\ snapshotID[p] = ChainID(Append(baseImage[p].DiffIDs, diffID[p]))
              /\ snapshotID[p] \in snapshotter.committed
         /\ Committed(p) = "ErrCommit" =>
              /\ pc[p] \in {"Remove", "done", "return"}
              /\ retErr[p] = "ErrCommit"
    /\ \A p, q \in Procs :
         (/\ Committed(p) \in {"nil", "ErrAlreadyExists"}
          /\ Committed(q) \in {"nil", "ErrAlreadyExists"}
          /\ baseImage[p].DiffIDs = baseImage[q].DiffIDs
          /\ AppliedBy(p) = AppliedBy(q)) =>
            /\ diffID[p] = diffID[q]
            /\ snapshotID[p] = snapshotID[q]

\* Two invocations squashed the same suffix on the same base; the Commit of
\* the second found the snapshot of the first.
C10_Witness ==
    /\ Committed(1) = "nil"
    /\ Committed(2) = "ErrAlreadyExists"
    /\ baseImage[1].DiffIDs = baseImage[2].DiffIDs
    /\ AppliedBy(1) = AppliedBy(2)
    /\ Succeeded(1) /\ Succeeded(2)

\* The manifest invocation p hands to content.WriteBlob.
WrittenManifest(p) == newManifest(imageConfig[p], baseImageLayers(p), diffLayerDesc[p])

\* The blobs of the content store that hold manifest m.
ManifestBlobs(m) == {b \in contentStore.manifests : b.blob = m}

\* C11: a manifest written by writeContentsForImage with N layers is stored
\* with exactly the labels gc.ref.content.0 .. gc.ref.content.N: label 0 is
\* the digest of the new config and label i+1 the digest of layers[i].
C11_GCLabels ==
    \A p \in Procs :
      Written(p, "manifest") # {} =>
        LET m == WrittenManifest(p)
            N == Len(m.Layers) IN
        /\ N = remainingLayerCount[p] + 1
        /\ Cardinality(ManifestBlobs(m)) = 1
        /\ \A b \in ManifestBlobs(m) :
             /\ DOMAIN b.labels = 0..N
             /\ b.labels[0] = imageConfig[p]
             /\ \A i \in 0..(N - 1) : b.labels[i + 1] = m.Layers[i + 1]
             /\ \A i \in 1..remainingLayerCount[p] : b.labels[i] = SourceLayers(p)[i]
             /\ b.labels[N] = diffLayerDesc[p]

\* A manifest of three layers, two retained and the new one, was written.
C11_Witness ==
    /\ pc[1] = "WriteBlob"
    /\ Written(1, "manifest") # {}
    /\ Len(WrittenManifest(1).Layers) = 3
    /\ \E b \in ManifestBlobs(WrittenManifest(1)) : DOMAIN b.labels = 0..3

\* The outcome of the only call of that name invocation p made ("none"
\* before the call).
Outcome(p, call) ==
    IF CallsOf(p, call) = {} THEN "none"
    ELSE calls[p][CHOOSE i \in CallsOf(p, call) : TRUE].res

\* Invocation p has gone on to Unpack.
ReachedUnpack(p) == pc[p] = "Unpack" \/ CallsOf(p, "Unpack") # {}

\* Invocation p has stopped with the error err before Unpack.
AbortedWith(p, err) ==
    /\ CallsOf(p, "Unpack") = {}
    /\ pc[p] \in {"done", "return"}
    /\ retErr[p] = err

\* C12: createSquashImage calls Update first.  If Update succeeds, Create is
\* not called and Squash goes on to Unpack; if Update fails with NotFound,
\* Create is called once and Squash goes on to Unpack exactly when Create
\* succeeds, returning the error of Create otherwise; if Update fails with
\* another error, neither Create nor Unpack is called and Squash returns
\* that error.
C12_Upsert ==
    \A p \in Procs :
      /\ Cardinality(CallsOf(p, "Update")) <= 1
      /\ Cardinality(CallsOf(p, "Create")) <= 1
      /\ Cardinality(CallsOf(p, "Unpack")) <= 1
      /\ \A i \in CallsOf(p, "Create") :
           i > 1 /\ calls[p][i - 1].call = "Update" /\ calls[p][i - 1].res = "ErrNotFound"
      /\ \A i \in CallsOf(p, "Unpack") :
           /\ i > 1
           /\ calls[p][i - 1].call \in {"Update", "Create"}
           /\ calls[p][i - 1].res = "nil"
      /\ (pc[p] \in {"Create", "Unpack"} \/ CallsOf(p, "Create") \cup CallsOf(p, "Unpack") # {})
             => CallsOf(p, "Update") # {}
      /\ Outcome(p, "Update") = "nil" =>
           /\ CallsOf(p, "Create") = {} /\ pc[p] # "Create"
           /\ ReachedUnpack(p)
      /\ Outcome(p, "Update") = "ErrNotFound" =>
           IF Outcome(p, "Create") = "none" THEN pc[p] = "Create"
           ELSE IF Outcome(p, "Create") = "nil" THEN ReachedUnpack(p)
           ELSE AbortedWith(p, Outcome(p, "Create"))
      /\ Outcome(p, "Update") \notin {"none", "nil", "ErrNotFound"} =>
           /\ CallsOf(p, "Create") = {} /\ pc[p] # "Create"
           /\ AbortedWith(p, Outcome(p, "Update"))

\* Update found no record of the target name; Create made it and Squash
\* succeeded.
C12_Witness ==
    /\ Succeeded(1)
    /\ Outcome(1, "Update") = "ErrNotFound"
    /\ Outcome(1, "Create") = "nil"
    /\ CallsOf(1, "Unpack") # {}

\* The image store answered the upsert of invocation p as an atomic store
\* does: no failure other than NotFound and AlreadyExists.
StoreAnswered(p) ==
    /\ Outcome(p, "Update") \in {"nil", "ErrNotFound"}
    /\ Outcome(p, "Create") \in {"none", "nil", "ErrAlreadyExists"}

\* C13: when two invocations with the same target name have both finished,
\* the image store having answered both, the target record names the
\* manifest of the invocation whose image-store call ran last.
C13_LastWriteWins ==
    \A p, q \in Procs :
      (/\ p # q
       /\ pc[p] = "return" /\ pc[q] = "return"
       /\ opt[p].TargetImageName = opt[q].TargetImageName
       /\ StoreAnswered(p) /\ StoreAnswered(q)
       /\ lastUpsert = p) =>
        TargetNames(p, commitManifestDesc[p])

\* WithLease gave invocation p a lease.
LeaseAcquired(p) == Outcome(p, "WithLease") = "nil"

\* Invocation p calls the release function in this step.
ReleaseStep(p) ==
    /\ Len(calls'[p]) = Len(calls[p]) + 1
    /\ calls'[p][Len(calls'[p])].call = "done"

\* The release function is called at most once, only with a lease acquired
\* and as the last call before Squash returns; Squash never returns with its
\* lease unreleased.
ReleasedOnce ==
    \A p \in Procs :
      /\ Cardinality(CallsOf(p, "done")) <= 1
      /\ \A i \in CallsOf(p, "done") :
           /\ LeaseAcquired(p)
           /\ i = Len(calls[p])
           /\ pc[p] = "return"
      /\ (pc[p] = "return" /\ LeaseAcquired(p)) => Cardinality(CallsOf(p, "done")) = 1
      /\ p \in leases <=> (LeaseAcquired(p) /\ CallsOf(p, "done") = {})

\* C14: once the lease is acquired the release function is called exactly
\* once on every path to the return of Squash, and never without a lease;
\* the release ends the lease and changes no snapshot, blob or image record.
C14_LeaseRelease ==
    /\ []ReleasedOnce
    /\ [][\A p \in Procs :
            ReleaseStep(p) =>
              /\ leases' = leases \ {p}
              /\ UNCHANGED <<imageStore, contentStore, snapshotter>>]_vars

\* Squash failed while writing the config blob and has released its lease,
\* leaving the scratch work of the run in the stores.
C14_Witness ==
    /\ pc[1] = "return"
    /\ retErr[1] = "ErrWriteConfig"
    /\ LeaseAcquired(1)
    /\ CallsOf(1, "done") = {Len(calls[1])}
    /\ 1 \notin leases
    /\ contentStore # initial.contentStore
    /\ snapshotter # initial.snapshotter

\* The calls that create or change stored state.
Mutating ==
    {"Prepare", "Apply", "Remove", "CreateDiff", "Commit", "WriteBlob",
     "Update", "Create", "Unpack"}

\* The positions at which an invocation is about to make one of those calls.
MutatingPositions ==
    {"Prepare", "Apply", "Remove", "createDiff", "Commit", "writeContentsForImage",
     "WriteBlob", "Update", "Create", "Unpack"}

\* C15: every call of an invocation that creates or changes stored state
\* comes after its successful WithLease and before its release, the lease
\* being held at that moment; before the lease the invocation only reads the
\* source image and selects layers, and as long as no invocation has a lease
\* no snapshot, blob or image record has changed.  The calls of an
\* invocation are: Get, WithLease, the writing calls, the release.
C15_LeaseScope ==
    /\ \A p \in Procs :
         LET n == Len(calls[p]) IN
         /\ n >= 1 => calls[p][1].call = "Get"
         /\ n >= 2 => calls[p][2].call = "WithLease"
         /\ n >= 3 => calls[p][2].res = "nil"
         /\ \A i \in 3..n :
              /\ calls[p][i].call \in Mutating \cup {"done"}
              /\ calls[p][i].call = "done" => i = n
         /\ pc[p] \in MutatingPositions => p \in leases
    /\ (\A p \in Procs : ~LeaseAcquired(p)) =>
         /\ imageStore = initial.imageStore
         /\ contentStore = initial.contentStore
         /\ snapshotter = initial.snapshotter

\* A successful run: the lease was taken second, after the read of the
\* source, every writing call up to Unpack followed, and the release came
\* last.
C15_Witness ==
    /\ Succeeded(1)
    /\ calls[1][1].call = "Get"
    /\ calls[1][2].call = "WithLease"
    /\ \A c \in Mutating \ {"Remove", "Create"} : CallsOf(1, c) # {}
    /\ calls[1][Len(calls[1])].call = "done"

\* createDiff returned an error to invocation p.
FailedCreateDiff(p) ==
    /\ CallsOf(p, "CreateDiff") # {}
    /\ pc[p] # "Commit"
    /\ CallsOf(p, "Commit") = {}

\* The call of invocation p during which applyDiffLayer failed, Prepare
\* having succeeded (0 if there is none).
FailedAfterPrepare(p) ==
    IF FailedApply(p) # {} THEN CHOOSE i \in FailedApply(p) : TRUE
    ELSE IF FailedCreateDiff(p) THEN CHOOSE i \in CallsOf(p, "CreateDiff") : TRUE
    ELSE IF Outcome(p, "Commit") = "ErrCommit" THEN CHOOSE i \in CallsOf(p, "Commit") : TRUE
    ELSE 0

\* The errors applyDiffLayer can be returning after the failure of call c.
ErrorsOf(c) ==
    IF c.call = "Apply" THEN {"ErrApply"}
    ELSE IF c.call = "Commit" THEN {"ErrCommit"}
    ELSE IF c.res = "nil" THEN {"ErrInfo", "ErrNoDiffID", "ErrParseDiffID"}
    ELSE {"ErrCreateDiff"}

\* After a failure that follows a successful Prepare, Remove is called once,
\* next, on the scratch key of the invocation, and the error of the failure
\* is the one returned; without such a failure, and when Prepare failed,
\* Remove is not called.
CleanedUpOnce ==
    \A p \in Procs :
      LET f == FailedAfterPrepare(p) IN
      IF f = 0
      THEN /\ CallsOf(p, "Remove") = {} /\ pc[p] # "Remove"
           /\ Outcome(p, "Prepare") \notin {"none", "nil"} =>
                pc[p] \in {"done", "return"} /\ retErr[p] = Outcome(p, "Prepare")
      ELSE /\ Outcome(p, "Prepare") = "nil"
           /\ pc[p] \in {"Remove", "done", "return"}
           /\ retErr[p] \in ErrorsOf(calls[p][f])
           /\ IF pc[p] = "Remove" THEN CallsOf(p, "Remove") = {}
              ELSE /\ CallsOf(p, "Remove") = {f + 1}
                   /\ calls[p][f + 1].arg = <<ToString(uniquePart(p))>>
                   /\ calls[p][f + 1].res = "nil" <=>
                        uniquePart(p) \notin DOMAIN snapshotter.active

\* C16: in applyDiffLayer a failure after Prepare succeeded (Apply, diff
\* creation, the uncompressed-digest label, a Commit error other than
\* AlreadyExists) is followed by exactly one Remove of the invocation's own
\* scratch key, and the error returned is that of the failure whether Remove
\* succeeds or fails; when Prepare fails Remove is not called.
C16_BestEffortCleanup ==
    /\ []CleanedUpOnce
    /\ [][\A p \in Procs : pc[p] = "Remove" => retErr'[p] = retErr[p]]_vars

\* The diff blob had no uncompressed-digest label, the cleanup failed as
\* well, and Squash returned the first error with the scratch snapshot left.
C16_Witness ==
    /\ pc[1] = "return"
    /\ retErr[1] = "ErrNoDiffID"
    /\ Outcome(1, "Remove") = "ErrRemove"
    /\ uniquePart(1) \in DOMAIN snapshotter.active

\* The squash-target suffix of the source manifest.
Suffix(p) == SliceFrom(SourceLayers(p), remainingLayerCount[p])

\* The number of the Apply call at position i among the Apply calls of p.
ApplyNumber(p, i) == Cardinality({j \in CallsOf(p, "Apply") : j <= i})

\* applyLayersToSnapshot has returned without error to invocation p.
AllApplied(p) ==
    \/ pc[p] \in {"createDiff", "Commit"}
    \/ CallsOf(p, "CreateDiff") \cup CallsOf(p, "Commit") # {}

\* C17: the Apply calls follow Prepare one after the other, the i-th for
\* the i-th descriptor of the suffix and none after a failed one; once the
\* differ goes on to diff creation, every descriptor of the suffix has been
\* applied exactly once, in order, to the scratch snapshot of the
\* invocation, and diff creation and Commit come after the last Apply.
C17_ApplyOrder ==
    \A p \in Procs :
      /\ \A i \in CallsOf(p, "Apply") :
           /\ i > 1
           /\ calls[p][i - 1].call \in {"Prepare", "Apply"}
           /\ calls[p][i - 1].res = "nil"
           /\ ApplyNumber(p, i) <= Len(Suffix(p))
           /\ calls[p][i].arg = Suffix(p)[ApplyNumber(p, i)]
      /\ AllApplied(p) =>
           /\ FailedApply(p) = {}
           /\ Cardinality(CallsOf(p, "Apply")) = Len(Suffix(p))
           /\ AppliedBy(p) = Suffix(p)
           /\ \A c \in CallsOf(p, "CreateDiff") \cup CallsOf(p, "Commit") :
                \A i \in CallsOf(p, "Apply") : i < c
           /\ \A c \in CallsOf(p, "Commit") : \E d \in CallsOf(p, "CreateDiff") : d < c
      /\ pc[p] \in {"createDiff", "Commit"} =>
           /\ uniquePart(p) \in DOMAIN snapshotter.active
           /\ snapshotter.active[uniquePart(p)].Applied = Suffix(p)
           /\ snapshotter.active[uniquePart(p)].Parent = ChainID(baseImage[p].DiffIDs)

\* The last three of five layers, the first of which has the digest of a
\* retained layer, were applied and the snapshot is about to be committed.
C17_Witness ==
    /\ pc[1] = "Commit"
    /\ Len(SourceLayers(1)) = 5
    /\ Len(Suffix(1)) = 3
    /\ Suffix(1)[1] = SourceLayers(1)[1]
    /\ AppliedBy(1) = Suffix(1)

\* The source image is consistent: as many non-empty-layer history entries
\* as diffIDs, and as many diffIDs as layers.
ConsistentSource(p) ==
    /\ NonEmptyCount(SourceHistory(p)) = Len(OriginalConfig(p).DiffIDs)
    /\ Len(OriginalConfig(p).DiffIDs) = Len(SourceLayers(p))

\* C18: the config written by a successful Squash of a consistent source
\* has the first remaining source diffIDs followed by the new diffID, and the
\* base history followed by one new non-empty-layer entry; its number of
\* non-empty-layer history entries, its number of diffIDs and the number of
\* layers of the new manifest all equal remaining + 1.
C18_OutputConfig ==
    \A p \in Procs :
      (Succeeded(p) /\ ConsistentSource(p)) =>
        LET config == commitManifestDesc[p].Config
            remaining == remainingLayerCount[p]
            n == Len(config.History) IN
        /\ HasConfig(config)
        /\ remaining = Len(SourceLayers(p)) - Len(Suffix(p))
        /\ config.DiffIDs = Append(SliceTo(OriginalConfig(p).DiffIDs, remaining), diffID[p])
        /\ diffID[p] # emptyDigest
        /\ n = Len(baseImage[p].History) + 1
        /\ SliceTo(config.History, n - 1) = baseImage[p].History
        /\ ~config.History[n].EmptyLayer
        /\ NonEmptyCount(baseImage[p].History) = remaining
        /\ NonEmptyCount(config.History) = remaining + 1
        /\ Len(config.DiffIDs) = remaining + 1
        /\ Len(commitManifestDesc[p].Layers) = remaining + 1

\* A four-layer image whose history has an empty-layer entry after each
\* layer entry was squashed from its second layer on.
C18_Witness ==
    /\ Succeeded(1)
    /\ ConsistentSource(1)
    /\ Len(SourceLayers(1)) = 4
    /\ Len(SourceHistory(1)) = 8
    /\ remainingLayerCount[1] = 1
    /\ Len(commitManifestDesc[1].Config.History) = 3
    /\ NonEmptyCount(commitManifestDesc[1].Config.History) = 2

\* applyDiffLayer has returned to invocation p after Prepare succeeded.
DifferReturned(p) ==
    /\ Outcome(p, "Prepare") = "nil"
    /\ pc[p] \in {"writeContentsForImage", "WriteBlob", "Update", "Create", "Unpack",
                  "done", "return"}

\* C19: whenever applyDiffLayer has returned after a successful Prepare, the
\* scratch snapshot of the invocation was committed under the new chain ID
\* or a Remove was attempted on it.
C19_NoScratchLeft ==
    \A p \in Procs :
      DifferReturned(p) =>
        \/ Outcome(p, "Commit") = "nil"
        \/ CallsOf(p, "Remove") # {}

\* The blobs of the content store that hold config c.
ConfigBlobs(c) == {b \in contentStore.configs : b.blob = c}

\* C20: once the config blob is written, its gc.ref.snapshot label is the
\* name under which the differ committed the snapshot or found it committed,
\* both being ChainID(base diffIDs followed by the new diffID), and a
\* committed snapshot of that name exists, at the moment of the write and
\* still when Squash has succeeded.
C20_SnapshotReference ==
    \A p \in Procs :
      Written(p, "config") # {} =>
        LET name == ChainID(Append(baseImage[p].DiffIDs, diffID[p])) IN
        /\ Outcome(p, "Commit") \in {"nil", "ErrAlreadyExists"}
        /\ calls[p][CHOOSE i \in CallsOf(p, "Commit") : TRUE].arg = name
        /\ snapshotID[p] = name
        /\ Cardinality(ConfigBlobs(imageConfig[p])) = 1
        /\ \A b \in ConfigBlobs(imageConfig[p]) : b.labels = name
        /\ name \in snapshotter.committed
        /\ Len(baseImage[p].DiffIDs) > 0 => name # ChainID(baseImage[p].DiffIDs)

\* Both invocations succeeded with configs that reference the same snapshot,
\* which the first committed and the second found committed.
C20_Witness ==
    /\ Succeeded(1) /\ Succeeded(2)
    /\ Outcome(1, "Commit") = "nil"
    /\ Outcome(2, "Commit") = "ErrAlreadyExists"
    /\ imageConfig[1] # imageConfig[2]
    /\ \A b \in ConfigBlobs(imageConfig[2]) : b.labels = snapshotID[1]
    /\ Len(baseImage[2].DiffIDs) = 1

\* The Update and Create calls of invocation p that wrote a record.
ImageWrites(p) ==
    {i \in CallsOf(p, "Update") \cup CallsOf(p, "Create") : calls[p][i].res = "nil"}

\* The record of name n is what it was before any invocation.
RecordUnchanged(n) ==
    /\ n \in DOMAIN imageStore <=> n \in DOMAIN initial.imageStore
    /\ n \in DOMAIN imageStore => imageStore[n] = initial.imageStore[n]

\* An invocation names its target in every Update and Create, its source in
\* Get only, and writes at most one record; a record that no invocation has
\* written as its target is unchanged.
TargetOnly ==
    /\ \A p \in Procs :
         /\ Cardinality(ImageWrites(p)) <= 1
         /\ \A i \in CallsOf(p, "Update") \cup CallsOf(p, "Create") :
              calls[p][i].arg = <<opt[p].TargetImageName>>
         /\ \A i \in CallsOf(p, "Get") :
              i = 1 /\ calls[p][i].arg = <<opt[p].SourceImageRef>>
    /\ \A n \in Names :
         (\A p \in Procs : ImageWrites(p) = {} \/ opt[p].TargetImageName # n) =>
           RecordUnchanged(n)

\* C21 (as stated): an invocation writes at most one image record, that of
\* the target name; every other record is unchanged, and the record of the
\* source image is never updated or created, only read.
C21_Original ==
    /\ TargetOnly
    /\ \A p \in Procs : pc[p] # "Squash" => RecordUnchanged(opt[p].SourceImageRef)

\* C21 (amended): the same, the record of the source image being left as it
\* is when the target name differs from the source reference; when the two
\* are the same name the source record is the target record, and a
\* successful Update makes it name the new manifest.
C21_ImageStoreFrame ==
    /\ TargetOnly
    /\ \A p \in Procs :
         (/\ pc[p] # "Squash"
          /\ \A q \in Procs : opt[q].TargetImageName # opt[p].SourceImageRef) =>
           RecordUnchanged(opt[p].SourceImageRef)
    /\ \A n \in Names :
         ~RecordUnchanged(n) =>
           \E p \in Procs :
             /\ ImageWrites(p) # {}
             /\ opt[p].TargetImageName = n
             /\ n \in DOMAIN imageStore
             /\ imageStore[n] = commitManifestDesc[p]

\* The target name had a record of its own, which Update replaced; the
\* record of the source is as it was.
C21_Witness ==
    /\ Succeeded(1)
    /\ opt[1].TargetImageName # opt[1].SourceImageRef
    /\ opt[1].TargetImageName \in DOMAIN initial.imageStore
    /\ Outcome(1, "Update") = "nil"
    /\ ~RecordUnchanged(opt[1].TargetImageName)
    /\ RecordUnchanged(opt[1].SourceImageRef)

====
